---- MODULE Spec2Model ----
(***************************************************************************)
(* State-machine model of ServerPool (src/main_API.py): the in-memory pool *)
(* of job ids with TTL expiry, leases, dead marking and priority order.    *)
(*                                                                         *)
(* Every public method of ServerPool holds self._lock for its whole        *)
(* critical section, so each method is one atomic action.  The only part   *)
(* of a method that runs outside the lock is the `now = time.time()` that  *)
(* add_servers and get_server read BEFORE taking the lock: a caller that   *)
(* waits for the lock works with a stale `now`.  The action draws that     *)
(* stale value from the clock values of the last MaxLag quanta.            *)
(* time.time() is the variable clock, in seconds, advancing by Quantum.    *)
(*                                                                         *)
(* The module also models SmartIPRotator (endpoint rotation and cooldown), *)
(* RobloxFetcher.fetch_page and fetch_cycle (leases, retries, the cursor   *)
(* plan of a cycle) and the order in which the threads take the four locks *)
(* of the program.                                                         *)
(***************************************************************************)
EXTENDS Integers, Sequences, FiniteSets, TLC

\* ---------------------------------------------------------------- bounds
NumIds     == 2      \* job ids are 1..NumIds
MaxItems   == 1      \* longest list handed to add_servers
MaxTicks   == 3      \* the clock stops after MaxTicks quanta
Quantum    == 300    \* seconds per clock step
MaxLag     == 1      \* a pre-lock `now` is at most MaxLag quanta old
MaxCount   == 2      \* cap of total_given and total_received
MaxSkip    == 1      \* cap of recycled, duplicates_skipped and dead_skipped
MaxBatch   == 2      \* largest ordinary count passed to get_batch
BootSecond == 60600  \* local time of day at clock 0 (16:50:00)
NumStatic  == 2      \* len(STATIC_IPS): static endpoints are 0..NumStatic-1
NumWorkers == 2      \* fetch_page calls that can be in flight together
RotQuantum == 45     \* seconds per clock step while fetching
MaxRotTicks == 2     \* the clock stops after MaxRotTicks such steps
MaxLeases  == 4      \* cap of the leases get_proxy hands out in a run
NumHandlers == 1     \* request-handler threads
MaxAdds    == 1      \* add_servers calls of one fetch_cycle
MaxNew     == 2      \* results of one fetch_cycle that bring records or a cursor
MaxTokens  == 2      \* cap of the new cursor tokens stored in a run
OldQuantum == 150    \* seconds per clock step of the part_000 scenario
MaxOldTicks == 13    \* its clock stops after MaxOldTicks such steps
MaxOldItems == 2     \* longest list posted to its /add-pool or fetched
MaxCache   == 2      \* cap of len(server_cache) in a run
MaxAssigned == 2     \* cap of jobs_assigned in a run
MaxErrors  == 7      \* cap of the errors reported to the rotator in a run
MaxSuccess == 1      \* cap of the successes reported to the rotator in a run
MaxUsage   == 1      \* cap of the get_proxy calls of such a run

\* ------------------------------------------------------- program constants
SERVER_TTL    == 300
GIVEN_TTL     == 300
DEAD_TTL      == 600
MIN_PLAYERS   == 5
PRIO_SWEET    == 100
PRIO_FIVE     == 50
PRIO_OTHER    == 10
PEAK_START_HOUR == 17
PEAK_END_HOUR   == 20
COOLDOWN_BASE   == 30
COOLDOWN_STEP   == 15
COOLDOWN_MAX    == 120
SUCCESS_RELIEF  == 10
MAX_RETRIES     == 2
CURSORS_PER_CYCLE_PEAK   == 50
CURSORS_PER_CYCLE_NORMAL == 20
DEPTH_PEAK      == 30
DEPTH_NORMAL    == 15
CURSOR_MAXLEN   == 3000
CACHE_LIMIT          == 4000
BLACKLIST_DURATION   == 300
CACHE_CLEAR_INTERVAL == 1800

Ids == 1..NumIds

\* The id of an item that carries none (a missing or empty id is falsy).
NoId == 0

\* The time of a hand-out that has not happened (part_000).
Never == 0 - 1

\* The metric values offered to add_servers.
Metrics == {5, 6}

\* The items a caller may put in the list: a bare id string, a dict with an
\* id and a `playing` field (possibly null), a dict without id, and a value
\* that is neither str nor dict.
\* ptype tells whether `playing` is a number ("int") or null ("none").
StrItems   == {[kind |-> "str", id |-> i, ptype |-> "int", playing |-> 0] : i \in Ids}
DictItems  == {[kind |-> "dict", id |-> i, ptype |-> "int", playing |-> p] :
                  i \in Ids, p \in Metrics}
NullItems  == {[kind |-> "dict", id |-> i, ptype |-> "none", playing |-> 0] : i \in Ids}
NoIdItems  == {[kind |-> "dict", id |-> NoId, ptype |-> "int", playing |-> 6]}
OtherItems == {[kind |-> "other", id |-> NoId, ptype |-> "int", playing |-> 0]}
Items      == DictItems

RECURSIVE SeqsUpTo(_, _)
SeqsUpTo(S, n) ==
    IF n = 0 THEN {<<>>}
    ELSE LET shorter == SeqsUpTo(S, n - 1)
         IN  shorter \cup {Append(s, x) : s \in {q \in shorter : Len(q) = n - 1}, x \in S}

ServerLists == SeqsUpTo(Items, MaxItems)

VARIABLES
    clock,      \* time.time()
    available,  \* self._available: sequence (insertion order) of [id, players, t, pr]
    assigned,   \* self._assigned: id -> lease stamp
    dead,       \* self._dead: id -> report time
    stats,      \* self._stats
    ret,        \* what the last call was and what it returned
    static_index,       \* ip_rotator.static_index
    static_status,      \* ip_rotator.static_status: index -> status dict
    residential_stats,  \* ip_rotator.residential_stats
    page,       \* the fetch_page calls in flight: worker -> position and locals
    cursors_asc,   \* fetcher.cursors_asc, oldest token first
    cursors_desc,  \* fetcher.cursors_desc, oldest token first
    fetches,    \* the plan fetch_cycle dispatched last: (cursor, sort order) pairs
    owner,      \* lock -> the thread that holds it (NoThread when free)
    todo,       \* thread -> the lock operations left of the call it is in
    server_cache,   \* part_000: the list of job ids to hand out
    blacklist,      \* part_000: job id -> end of its blacklisting
    jobs_assigned,  \* part_000: the hand-out counter
    handed          \* part_000 (history): job id -> time of its last hand-out

vars == <<clock, available, assigned, dead, stats, ret,
          static_index, static_status, residential_stats, page,
          cursors_asc, cursors_desc, fetches, owner, todo,
          server_cache, blacklist, jobs_assigned, handed>>

oldvars == <<server_cache, blacklist, jobs_assigned, handed>>

lockvars == <<owner, todo>>

cyclevars == <<cursors_asc, cursors_desc, fetches>>

\* What the pool's methods never touch.
rotvars == <<static_index, static_status, residential_stats>>

crawlvars ==
    <<static_index, static_status, residential_stats, page,
      cursors_asc, cursors_desc, fetches, owner, todo,
      server_cache, blacklist, jobs_assigned, handed>>

\* ------------------------------------------------------------ dict helpers
Keys(av) == {av[i].id : i \in DOMAIN av}

Entry(av, id) == av[CHOOSE i \in DOMAIN av : av[i].id = id]

DelKey(f, k) == [x \in (DOMAIN f) \ {k} |-> f[x]]

SetKey(f, k, v) == [x \in (DOMAIN f) \cup {k} |-> IF x = k THEN v ELSE f[x]]

DelAvail(av, id) == SelectSeq(av, LAMBDA r : r.id # id)

\* --------------------------------------------------------------- _cleanup
\* Mutant: dead entries kept only as long as a lease.
ExpiredDead_Short(now, v) == now - v > GIVEN_TTL

ExpiredDead(now, v) == now - v > DEAD_TTL

ExpiredAssigned(now, v) == now - v > GIVEN_TTL

\* Mutant: _cleanup without the expiry of _available.
ExpiredAvailable_Never(now, t) == FALSE

ExpiredAvailable(now, t) == now - t > SERVER_TTL

CleanDead(d, now) ==
    [k \in {x \in DOMAIN d : ~ExpiredDead(now, d[x])} |-> d[k]]

\* Mutant: _cleanup counts the expired leases and leaves them in _assigned.
CleanAssigned_Kept(a, now) == a

CleanAssigned(a, now) ==
    [k \in {x \in DOMAIN a : ~ExpiredAssigned(now, a[x])} |-> a[k]]

RecycledCount(a, now) ==
    Cardinality({x \in DOMAIN a : ExpiredAssigned(now, a[x])})

\* An expired lease is deleted from _assigned and counted; nothing is put
\* back into _available.
CleanAvailable(av, now) ==
    SelectSeq(av, LAMBDA r : ~ExpiredAvailable(now, r.t))

CleanStats(st, a, now) ==
    [st EXCEPT !.recycled = @ + RecycledCount(a, now)]

Cleanup(av, a, d, st, now) ==
    [av |-> CleanAvailable(av, now),
     a  |-> CleanAssigned(a, now),
     d  |-> CleanDead(d, now),
     st |-> CleanStats(st, a, now)]

\* ------------------------------------------------------------ add_servers
\* job_id of an item: None when the item has no usable id.
JobId(item) ==
    IF item.kind = "str" THEN item.id
    ELSE IF item.kind = "dict" THEN item.id
    ELSE NoId

Players(item) == IF item.kind = "str" THEN 0 ELSE item.playing

\* `isinstance(item, str)` / `isinstance(item, dict)` / `if not job_id`
Skipped(item) == item.kind \notin {"str", "dict"} \/ JobId(item) = NoId

SeenDead(d, id) == id \in DOMAIN d

\* Mutant: add_servers without the `job_id in self._assigned` test.
SeenAssigned_Skipped(a, id) == FALSE

SeenAssigned(a, id) == id \in DOMAIN a

\* Mutant: add_servers without the `job_id in self._available` test.
SeenAvailable_Skipped(av, id) == FALSE

SeenAvailable(av, id) == id \in Keys(av)

\* `players < 5` on a value that is not a number raises TypeError.
Raises(item) == item.kind = "dict" /\ item.ptype = "none"

TooFew(players) == players < MIN_PLAYERS

\* Mutant: priority grows with the metric instead of banding it.
Priority_Linear(players) == players

Priority(players) ==
    IF players \in {6, 7} THEN PRIO_SWEET
    ELSE IF players = 5 THEN PRIO_FIVE
    ELSE PRIO_OTHER

Admit(av, id, players, now) ==
    Append(av, [id |-> id, players |-> players, t |-> now, pr |-> Priority(players)])

\* Mutant: a re-discovered id gets its entry's time refreshed.
OnDuplicate_Refresh(acc, item, now) ==
    [acc EXCEPT !.duplicates = @ + 1,
                !.av = [k \in DOMAIN @ |->
                           IF @[k].id = JobId(item) THEN [@[k] EXCEPT !.t = now]
                           ELSE @[k]]]

\* `duplicates += 1; continue` for an id found in _available
OnDuplicate(acc, item, now) == [acc EXCEPT !.duplicates = @ + 1]

\* One pass of the `for item in servers` loop on the accumulator
\* acc = [av, added, duplicates, dead, raised].
AddItem(acc, item, a, d, now) ==
    IF acc.raised \/ Skipped(item) THEN acc
    ELSE IF SeenDead(d, JobId(item)) THEN [acc EXCEPT !.dead = @ + 1]
    ELSE IF SeenAssigned(a, JobId(item)) THEN [acc EXCEPT !.duplicates = @ + 1]
    ELSE IF SeenAvailable(acc.av, JobId(item)) THEN OnDuplicate(acc, item, now)
    ELSE IF Raises(item) THEN [acc EXCEPT !.raised = TRUE]
    ELSE IF TooFew(Players(item)) THEN acc
    ELSE [acc EXCEPT !.av = Admit(@, JobId(item), Players(item), now),
                     !.added = @ + 1]

RECURSIVE AddLoop(_, _, _, _, _, _)
AddLoop(acc, servers, i, a, d, now) ==
    IF i > Len(servers) \/ acc.raised THEN acc
    ELSE AddLoop(AddItem(acc, servers[i], a, d, now), servers, i + 1, a, d, now)

\* Mutant: total_received counts the duplicates of the list as well.
AddStats_Offered(st, acc, is_peak) ==
    [st EXCEPT !.total_received = @ + acc.added + acc.duplicates,
               !.duplicates_skipped = @ + acc.duplicates,
               !.dead_skipped = @ + acc.dead,
               !.peak_servers = IF is_peak THEN @ + acc.added ELSE @,
               !.normal_servers = IF is_peak THEN @ ELSE @ + acc.added]

AddStats(st, acc, is_peak) ==
    [st EXCEPT !.total_received = @ + acc.added,
               !.duplicates_skipped = @ + acc.duplicates,
               !.dead_skipped = @ + acc.dead,
               !.peak_servers = IF is_peak THEN @ + acc.added ELSE @,
               !.normal_servers = IF is_peak THEN @ ELSE @ + acc.added]

\* The values time.time() may have returned to a caller that read it before
\* waiting for the lock.
StaleNows == {clock - k * Quantum : k \in {j \in 0..MaxLag : j * Quantum <= clock}}

\* TimezoneDetector.get_local_hour / is_peak, with the UTC offset folded
\* into the local time of day at which the clock starts.
get_local_hour(now) == ((BootSecond + now) \div 3600) % 24

is_peak_hours(now) ==
    PEAK_START_HOUR <= get_local_hour(now) /\ get_local_hour(now) < PEAK_END_HOUR

add_servers(servers, now) ==
    \E c \in {Cleanup(available, assigned, dead, stats, clock)} :
    \E acc \in {AddLoop([av |-> c.av, added |-> 0, duplicates |-> 0, dead |-> 0,
                         raised |-> FALSE], servers, 1, c.a, c.d, now)} :
    \E st \in {IF acc.raised THEN c.st ELSE AddStats(c.st, acc, is_peak_hours(now))} :
        /\ available' = acc.av
        /\ assigned' = c.a
        /\ dead' = c.d
        /\ stats' = st
        /\ ret' = [op |-> "add_servers", servers |-> servers,
                   raised |-> acc.raised, added |-> acc.added,
                   duplicates |-> acc.duplicates, dead |-> acc.dead,
                   total |-> Len(servers)]
        /\ UNCHANGED clock

\* ------------------------------------------------- get_server / get_batch
\* sorted(..., key=(priority, -added_time), reverse=True): x goes before y
\* when its key is the larger one.
\* Mutant: the key (priority, added_time), newest first among equal priority.
Before_NewestFirst(x, y) == x.pr > y.pr \/ (x.pr = y.pr /\ x.t > y.t)

Before(x, y) == x.pr > y.pr \/ (x.pr = y.pr /\ (0 - x.t) > (0 - y.t))

\* sorted() is stable, also with reverse=True: a record goes behind the
\* records already placed that it does not go before, so records of equal
\* key keep their dict order.
InsertSorted(s, x) ==
    \* the sorted prefix x does not go before
    LET p == Cardinality({k \in DOMAIN s : ~Before(x, s[k])})
    IN  SubSeq(s, 1, p) \o <<x>> \o SubSeq(s, p + 1, Len(s))

\* The records of av placed one by one, in dict order.
RECURSIVE SortLoop(_, _)
SortLoop(sorted, av) ==
    IF Len(sorted) = Len(av) THEN sorted
    ELSE SortLoop(InsertSorted(sorted, av[Len(sorted) + 1]), av)

SortedServers(av) == SortLoop(<<>>, av)

\* The dict get_server returns for a record.
ServerDict(r, now, pool_size) ==
    [job_id |-> r.id, players |-> r.players, priority |-> r.pr,
     age |-> now - r.t, pool_size |-> pool_size]

\* The dict get_batch appends for a record (no pool_size).
BatchDict(r, now) ==
    [job_id |-> r.id, players |-> r.players, priority |-> r.pr,
     age |-> now - r.t]

\* Mutant: the loop of get_batch leaves one record late.
BatchFull_OneLate(results, count) == Len(results) > count

\* `if len(results) >= count: break`
BatchFull(results, count) == Len(results) >= count

\* The `for ... in sorted_servers` loop of get_batch on the accumulator
\* acc = [av, a, given, results].
RECURSIVE TakeLoop(_, _, _, _, _, _)
TakeLoop(acc, sorted, i, d, now, count) ==
    IF i > Len(sorted) \/ BatchFull(acc.results, count) THEN acc
    ELSE IF SeenDead(d, sorted[i].id)
         THEN TakeLoop(acc, sorted, i + 1, d, now, count)
    ELSE TakeLoop([av      |-> DelAvail(acc.av, sorted[i].id),
                   a       |-> SetKey(acc.a, sorted[i].id, now),
                   given   |-> acc.given + 1,
                   results |-> Append(acc.results, BatchDict(sorted[i], now))],
                  sorted, i + 1, d, now, count)

Take(c, now, count) ==
    TakeLoop([av |-> c.av, a |-> c.a, given |-> 0, results |-> <<>>],
             SortedServers(c.av), 1, c.d, now, count)

\* The position in sorted_servers of the first record whose id is not in
\* _dead, 0 when the loop of get_server runs out.
RECURSIVE FirstLive(_, _, _)
FirstLive(sorted, i, d) ==
    IF i > Len(sorted) THEN 0
    ELSE IF SeenDead(d, sorted[i].id) THEN FirstLive(sorted, i + 1, d)
    ELSE i

\* Mutant: a get_server that finds nothing still counts a hand-out.
NoServer_Counted(c) == [av |-> c.av, a |-> c.a, given |-> 1, results |-> <<>>]

\* `return None`: nothing taken.
NoServer(c) == [av |-> c.av, a |-> c.a, given |-> 0, results |-> <<>>]

\* The hand-out of get_server: the record at position i of sorted_servers
\* leaves _available and is stamped into _assigned.
GiveServer(c, sorted, i, now) ==
    [av      |-> DelAvail(c.av, sorted[i].id),
     a       |-> SetKey(c.a, sorted[i].id, now),
     given   |-> 1,
     results |-> <<ServerDict(sorted[i], now, Len(c.av) - 1)>>]

TakeOne(c, now) ==
    IF c.av = <<>> THEN NoServer(c)
    ELSE \* sorted_servers and the first live position, computed once
         LET sorted == SortedServers(c.av)
             i      == FirstLive(sorted, 1, c.d)
         IN  IF i = 0 THEN NoServer(c) ELSE GiveServer(c, sorted, i, now)

get_server(now) ==
    \E c \in {Cleanup(available, assigned, dead, stats, clock)} :
    \E acc \in {TakeOne(c, now)} :
    \E st \in {[c.st EXCEPT !.total_given = @ + acc.given]} :
        /\ available' = acc.av
        /\ assigned' = acc.a
        /\ dead' = c.d
        /\ stats' = st
        /\ ret' = [op |-> "get_server", results |-> acc.results]
        /\ UNCHANGED clock

\* count = min(count, 50) in the /get-batch route
BATCH_CAP == 50

\* Mutant: the route passes the count on as it came.
BatchCount_Uncapped(count) == count

BatchCount(count) == IF count < BATCH_CAP THEN count ELSE BATCH_CAP

get_batch(count) ==
    \E c \in {Cleanup(available, assigned, dead, stats, clock)} :
    \E acc \in {Take(c, clock, BatchCount(count))} :
    \E st \in {[c.st EXCEPT !.total_given = @ + acc.given]} :
        /\ available' = acc.av
        /\ assigned' = acc.a
        /\ dead' = c.d
        /\ stats' = st
        /\ ret' = [op |-> "get_batch", count |-> count, results |-> acc.results]
        /\ UNCHANGED clock

\* ------------------------------------------- report_dead / release_server
\* Mutant: report_dead leaves the record in _available.
DeadFromAvailable_Kept(av, job_id) == av

DeadFromAvailable(av, job_id) == DelAvail(av, job_id)

\* Mutant: report_dead leaves a leased id in _assigned.
DeadFromAssigned_Kept(a, job_id) == a

DeadFromAssigned(a, job_id) == DelKey(a, job_id)

report_dead(job_id) ==
    /\ dead' = SetKey(dead, job_id, clock)
    /\ available' = DeadFromAvailable(available, job_id)
    /\ assigned' = DeadFromAssigned(assigned, job_id)
    /\ ret' = [op |-> "report_dead", job_id |-> job_id]
    /\ UNCHANGED <<clock, stats>>

release_server(job_id) ==
    /\ assigned' = DelKey(assigned, job_id)
    /\ ret' = [op |-> "release_server", job_id |-> job_id]
    /\ UNCHANGED <<clock, available, dead, stats>>

\* ------------------------------------------------------ count / get_stats
count ==
    \E c \in {Cleanup(available, assigned, dead, stats, clock)} :
        /\ available' = c.av
        /\ assigned' = c.a
        /\ dead' = c.d
        /\ stats' = c.st
        /\ ret' = [op |-> "count", value |-> Len(c.av)]
        /\ UNCHANGED clock

get_stats ==
    \E c \in {Cleanup(available, assigned, dead, stats, clock)} :
        /\ available' = c.av
        /\ assigned' = c.a
        /\ dead' = c.d
        /\ stats' = c.st
        /\ ret' = [op |-> "get_stats",
                   snapshot |-> [available |-> Len(c.av),
                                 assigned |-> Cardinality(DOMAIN c.a),
                                 dead |-> Cardinality(DOMAIN c.d),
                                 total_given |-> c.st.total_given,
                                 total_received |-> c.st.total_received,
                                 recycled |-> c.st.recycled,
                                 duplicates_skipped |-> c.st.duplicates_skipped,
                                 dead_skipped |-> c.st.dead_skipped,
                                 fetch_errors |-> c.st.fetch_errors,
                                 fetch_success |-> c.st.fetch_success,
                                 peak_servers |-> c.st.peak_servers,
                                 normal_servers |-> c.st.normal_servers,
                                 ttl_seconds |-> SERVER_TTL]]
        /\ UNCHANGED clock

\* --------------------------------------------------------- SmartIPRotator
\* Every method of SmartIPRotator runs whole under self.lock and reads
\* time.time() inside it.  last_error is written and never read; it is left
\* out of the status dict.
StaticIdx == 0..(NumStatic - 1)

\* The idx get_proxy returns with a residential proxy.
NoIdx == 0 - 1

FreshStatus ==
    [usage |-> 0, success |-> 0, errors |-> 0, cooldown_until |-> 0,
     consecutive_errors |-> 0]

FreshResidential == [usage |-> 0, success |-> 0, errors |-> 0, fallback_count |-> 0]

Max(a, b) == IF a >= b THEN a ELSE b

Min(a, b) == IF a <= b THEN a ELSE b

\* Mutant: get_proxy without the cooldown test.
OnCooldown_Never(now, status) == FALSE

\* `if now < status['cooldown_until']: continue`
OnCooldown(now, status) == now < status.cooldown_until

\* The `for _ in range(len(self.static_ips))` loop of get_proxy with k
\* passes left: the index it settles on (NoIdx when every pass skipped) and
\* static_index as the loop leaves it.
RECURSIVE ProxyLoop(_, _, _, _)
ProxyLoop(si, status, now, k) ==
    IF k = 0 THEN [static_index |-> si, ip_idx |-> NoIdx]
    ELSE IF OnCooldown(now, status[si])
         THEN ProxyLoop((si + 1) % NumStatic, status, now, k - 1)
    ELSE [static_index |-> (si + 1) % NumStatic, ip_idx |-> si]

\* get_proxy on the rotator r = [static_index, static_status,
\* residential_stats]: the rotator it leaves and the lease it returns.
get_proxy(r, now) ==
    LET l == ProxyLoop(r.static_index, r.static_status, now, NumStatic)
    IN  IF l.ip_idx # NoIdx
        THEN [static_index |-> l.static_index,
              static_status |-> [r.static_status EXCEPT ![l.ip_idx].usage = @ + 1],
              residential_stats |-> r.residential_stats,
              proxy_type |-> "static", ip_idx |-> l.ip_idx]
        ELSE [static_index |-> l.static_index,
              static_status |-> r.static_status,
              residential_stats |-> [r.residential_stats EXCEPT
                                        !.usage = @ + 1, !.fallback_count = @ + 1],
              proxy_type |-> "residential", ip_idx |-> NoIdx]

\* Mutant: a success clears the cooldown.
Relief_Reset(cooldown_until) == 0

\* `if status['cooldown_until'] > 0: ... = max(0, status['cooldown_until'] - 10)`
Relief(cooldown_until) ==
    IF cooldown_until > 0 THEN Max(0, cooldown_until - SUCCESS_RELIEF)
    ELSE cooldown_until

report_success(r, proxy_type, idx) ==
    IF proxy_type = "static" /\ idx >= 0
    THEN [r EXCEPT !.static_status[idx].success = @ + 1,
                   !.static_status[idx].consecutive_errors = 0,
                   !.static_status[idx].cooldown_until = Relief(@)]
    ELSE [r EXCEPT !.residential_stats.success = @ + 1]

\* Mutant: the cooldown grows without the cap.
Cooldown_Uncapped(consecutive_errors) ==
    COOLDOWN_BASE + consecutive_errors * COOLDOWN_STEP

\* cooldown = min(30 + consecutive_errors * 15, 120)
Cooldown(consecutive_errors) ==
    Min(COOLDOWN_BASE + consecutive_errors * COOLDOWN_STEP, COOLDOWN_MAX)

report_error(r, proxy_type, idx, is_rate_limit, now) ==
    IF proxy_type = "static" /\ idx >= 0
    THEN [r EXCEPT !.static_status[idx].errors = @ + 1,
                   !.static_status[idx].consecutive_errors = @ + 1,
                   !.static_status[idx].cooldown_until =
                       IF is_rate_limit
                          \/ r.static_status[idx].consecutive_errors + 1 >= 2
                       THEN now + Cooldown(r.static_status[idx].consecutive_errors + 1)
                       ELSE @]
    ELSE [r EXCEPT !.residential_stats.errors = @ + 1]

\* The rotator as it stands, and the step that installs a new one.
Rotator ==
    [static_index |-> static_index, static_status |-> static_status,
     residential_stats |-> residential_stats]

SetRotator(r) ==
    /\ static_index' = r.static_index
    /\ static_status' = r.static_status
    /\ residential_stats' = r.residential_stats

\* ------------------------------------------------- RobloxFetcher.fetch_page
\* A fetch_page call runs in a worker thread of fetch_cycle's executor.  Its
\* steps are the stretches between two waits: taking the first lease, one
\* request with the handling of its response, and taking the lease for a
\* retry.  page[w] holds the call's position (pc), its locals, the leases it
\* took and the responses it saw.
Workers == 1..NumWorkers

Orders == {"Asc", "Desc"}

\* What a request can end in: status 200, status 429, another status, or an
\* exception (timeout, connection error, undecodable body).
Outcomes == {"200", "429", "other", "exception"}

NoLease == [proxy_type |-> "none", ip_idx |-> NoIdx]

IdlePage ==
    [pc |-> "idle", sort_order |-> "Asc", attempt |-> 0, lease |-> NoLease,
     leases |-> 0, log |-> <<>>]

Lease(g) == [proxy_type |-> g.proxy_type, ip_idx |-> g.ip_idx]

record_fetch_success(st) == [st EXCEPT !.fetch_success = @ + 1]

record_fetch_error(st) == [st EXCEPT !.fetch_errors = @ + 1]

\* `return servers, next_cursor, sort_order`: the call ends and hands its
\* result to fetch_cycle.
Return(w, servers, next_cursor, leased, log) ==
    /\ page' = [page EXCEPT ![w] = IdlePage]
    /\ ret' = [op |-> "fetch_return", worker |-> w,
               sort_order |-> page[w].sort_order,
               servers |-> servers, next_cursor |-> next_cursor,
               lease |-> leased, leases |-> page[w].leases
                            + (IF leased = NoLease THEN 0 ELSE 1),
               log |-> log]

\* proxy, proxy_type, ip_idx = ip_rotator.get_proxy()  (line 515)
FetchStart(w, sort_order) ==
    /\ page[w].pc = "idle"
    /\ \E g \in {get_proxy(Rotator, clock)} :
          /\ SetRotator(g)
          /\ page' = [page EXCEPT ![w] =
                         [pc |-> "request", sort_order |-> sort_order,
                          attempt |-> 0, lease |-> Lease(g), leases |-> 1,
                          log |-> <<>>]]
          /\ ret' = [op |-> "fetch_start", worker |-> w, lease |-> Lease(g)]
    /\ UNCHANGED <<clock, available, assigned, dead, stats>>

\* Mutant: an exception leads to a retry on every attempt.
MayRetry_Always(attempt) == TRUE

\* `if attempt < max_retries - 1`: whether an exception leads to a retry.

MayRetry(attempt) == attempt < MAX_RETRIES - 1

\* requests.get and the handling of what it ends in (lines 528-565), up to
\* the next get_proxy or the return.
FetchRespond(w, outcome, servers, next_cursor) ==
    /\ page[w].pc = "request"
    /\ \E log \in {Append(page[w].log, outcome)} :
          \/ /\ outcome = "200"
             /\ stats' = record_fetch_success(stats)
             /\ SetRotator(report_success(Rotator, page[w].lease.proxy_type,
                                          page[w].lease.ip_idx))
             /\ Return(w, servers, next_cursor, NoLease, log)
          \/ /\ outcome = "429"
             /\ SetRotator(report_error(Rotator, page[w].lease.proxy_type,
                                        page[w].lease.ip_idx, TRUE, clock))
             /\ page' = [page EXCEPT ![w].pc = "retry", ![w].log = log]
             /\ ret' = [op |-> "fetch_failed", worker |-> w, lease |-> NoLease]
             /\ UNCHANGED stats
          \/ /\ outcome = "other"
             /\ stats' = record_fetch_error(stats)
             /\ SetRotator(report_error(Rotator, page[w].lease.proxy_type,
                                        page[w].lease.ip_idx, FALSE, clock))
             /\ Return(w, FALSE, FALSE, NoLease, log)
          \/ /\ outcome = "exception"
             /\ SetRotator(report_error(Rotator, page[w].lease.proxy_type,
                                        page[w].lease.ip_idx, FALSE, clock))
             /\ IF MayRetry(page[w].attempt)
                THEN /\ page' = [page EXCEPT ![w].pc = "retry", ![w].log = log]
                     /\ ret' = [op |-> "fetch_failed", worker |-> w,
                                lease |-> NoLease]
                     /\ UNCHANGED stats
                ELSE /\ stats' = record_fetch_error(stats)
                     /\ Return(w, FALSE, FALSE, NoLease, log)
    /\ UNCHANGED <<clock, available, assigned, dead>>

\* "Get new proxy for retry", the sleep and `continue`: the loop goes round
\* again, or has run out and line 567 returns.
FetchRetry(w) ==
    /\ page[w].pc = "retry"
    /\ \E g \in {get_proxy(Rotator, clock)} :
          /\ SetRotator(g)
          /\ IF page[w].attempt + 1 < MAX_RETRIES
             THEN /\ page' = [page EXCEPT ![w].pc = "request",
                                          ![w].attempt = @ + 1,
                                          ![w].lease = Lease(g),
                                          ![w].leases = @ + 1]
                  /\ ret' = [op |-> "fetch_retry", worker |-> w,
                             lease |-> Lease(g)]
             ELSE Return(w, FALSE, FALSE, Lease(g), page[w].log)
    /\ UNCHANGED <<clock, available, assigned, dead, stats>>

\* ------------------------------------------------ RobloxFetcher.fetch_cycle
\* get_fetch_config()['mode']
Mode(now) == IF is_peak_hours(now) THEN "PEAK" ELSE "NORMAL"

\* Mutant: a per-cycle maximum of one fetch.
CursorsPerCycle_One(mode) == 1

\* config['cursors']
CursorsPerCycle(mode) ==
    IF mode = "PEAK" THEN CURSORS_PER_CYCLE_PEAK ELSE CURSORS_PER_CYCLE_NORMAL

\* depth = 30 if config['mode'] == 'PEAK' else 15
Depth(mode) == IF mode = "PEAK" THEN DEPTH_PEAK ELSE DEPTH_NORMAL

\* The cursor of a page-1 fetch (None).
NoCursor == 0

\* lst[-min(depth, len(lst)):]
LastOf(lst, depth) == SubSeq(lst, Len(lst) - Min(depth, Len(lst)) + 1, Len(lst))

Paired(lst, sort_order) ==
    [i \in DOMAIN lst |-> [cursor |-> lst[i], sort_order |-> sort_order]]

\* fetches as lines 572-588 build it: the two page-1 fetches, then the
\* deepest cursors of each direction.
AllFetches(asc_list, desc_list, mode) ==
    <<[cursor |-> NoCursor, sort_order |-> "Asc"],
      [cursor |-> NoCursor, sort_order |-> "Desc"]>>
        \o Paired(LastOf(asc_list, Depth(mode)), "Asc")
        \o Paired(LastOf(desc_list, Depth(mode)), "Desc")

\* fetches[:config['cursors']]
Truncated(lst, n) == SubSeq(lst, 1, Min(Len(lst), Max(n, 0)))

FetchPlan(asc_list, desc_list, mode) ==
    Truncated(AllFetches(asc_list, desc_list, mode), CursorsPerCycle(mode))

\* fetch_cycle up to the dispatch of its plan (lines 570-597): every entry
\* of fetches is submitted to the executor.
CyclePlan ==
    /\ fetches' = FetchPlan(cursors_asc, cursors_desc, Mode(clock))
    /\ ret' = [op |-> "fetch_cycle", mode |-> Mode(clock)]
    /\ UNCHANGED <<clock, available, assigned, dead, stats>>
    /\ UNCHANGED <<static_index, static_status, residential_stats, page>>
    /\ UNCHANGED <<cursors_asc, cursors_desc>>
    /\ UNCHANGED lockvars
    /\ UNCHANGED oldvars

\* add_servers as a function of the pool p = [av, a, d, st]: the pool it
\* leaves and whether it raised.
PoolAdded(p, servers, now) ==
    LET c   == Cleanup(p.av, p.a, p.d, p.st, now)
        acc == AddLoop([av |-> c.av, added |-> 0, duplicates |-> 0, dead |-> 0,
                        raised |-> FALSE], servers, 1, c.a, c.d, now)
    IN  [av |-> acc.av, a |-> c.a, d |-> c.d,
         st |-> IF acc.raised THEN c.st ELSE AddStats(c.st, acc, is_peak_hours(now)),
         raised |-> acc.raised]

\* Mutant: a deque without maxlen.
DequeAppend_Unbounded(q, c) == Append(q, c)

\* deque(maxlen=3000).append: a full deque drops its oldest element.
DequeAppend(q, c) ==
    IF Len(q) >= CURSOR_MAXLEN THEN Append(Tail(q), c) ELSE Append(q, c)

\* `for c in new_cursors: self.cursors.append(c)`
RECURSIVE DequeExtend(_, _)
DequeExtend(q, new) ==
    IF new = <<>> THEN q ELSE DequeExtend(DequeAppend(q, Head(new)), Tail(new))

\* The body of the as_completed loop (lines 600-611) for the results from
\* position k on.  acc holds the pool, the two new_cursors lists and, per
\* result, whether add_servers raised; an exception leaves the body before
\* the cursor is looked at.
RECURSIVE Collect(_, _, _, _)
Collect(acc, results, k, now) ==
    IF k > Len(results) THEN acc
    ELSE LET r   == results[k]
             p   == IF r.servers # <<>> THEN PoolAdded(acc.p, r.servers, now)
                    ELSE [acc.p EXCEPT !.raised = FALSE]
             got == r.next_cursor # NoCursor /\ ~p.raised
         IN  Collect([p    |-> p,
                      asc  |-> IF got /\ r.sort_order = "Asc"
                               THEN Append(acc.asc, r.next_cursor) ELSE acc.asc,
                      desc |-> IF got /\ r.sort_order # "Asc"
                               THEN Append(acc.desc, r.next_cursor) ELSE acc.desc,
                      raised |-> Append(acc.raised, p.raised)],
                     results, k + 1, now)

\* fetch_cycle from the results of its futures to the end (lines 599-632):
\* `results` are what the fetch_page calls returned, in the order they
\* completed.  The minute block changes nothing that is modelled.
CycleStore(results) ==
    /\ fetches # <<>>
    /\ \E acc \in {Collect([p |-> [av |-> available, a |-> assigned, d |-> dead,
                                   st |-> stats, raised |-> FALSE],
                            asc |-> <<>>, desc |-> <<>>, raised |-> <<>>],
                           results, 1, clock)} :
          /\ available' = acc.p.av
          /\ assigned' = acc.p.a
          /\ dead' = acc.p.d
          /\ stats' = acc.p.st
          /\ cursors_asc' = DequeExtend(cursors_asc, acc.asc)
          /\ cursors_desc' = DequeExtend(cursors_desc, acc.desc)
          /\ ret' = [op |-> "fetch_cycle_end", results |-> results,
                     raised |-> acc.raised]
    /\ fetches' = <<>>
    /\ UNCHANGED <<clock, static_index, static_status, residential_stats, page>>
    /\ UNCHANGED lockvars
    /\ UNCHANGED oldvars

\* ------------------------------------------------------------------- locks
\* The four locks of the program and the threads that take them: the
\* fetcher thread (RobloxFetcher.run), the worker threads of its executor
\* (fetch_page) and the request-handler threads of the server.  A call is
\* the sequence of acquire and release operations its code performs; every
\* lock is taken by a `with` block, so it is released where the block ends.
Locks == {"pool", "rotator", "cursor", "minute"}

NoThread == 0

FetcherThread == 1

WorkerThreads == 2..(1 + NumWorkers)

HandlerThreads == (2 + NumWorkers)..(1 + NumWorkers + NumHandlers)

LockThreads == {FetcherThread} \cup WorkerThreads \cup HandlerThreads

Acq(l) == [op |-> "acquire", lock |-> l]

Rel(l) == [op |-> "release", lock |-> l]

\* A `with lock:` block that takes no other lock inside.
Block(l) == <<Acq(l), Rel(l)>>

\* Blocks one after the other.
RECURSIVE Blocks(_)
Blocks(ls) == IF ls = <<>> THEN <<>> ELSE Block(Head(ls)) \o Blocks(Tail(ls))

\* fetch_page: get_proxy, then per request the pool's record_fetch_* and
\* the rotator's report_* and get_proxy calls, none inside another.
FetchPagePaths ==
    {Blocks(ls) : ls \in
        {<<"rotator", "pool", "rotator">>,
         <<"rotator", "rotator", "rotator", "pool", "rotator">>,
         <<"rotator", "rotator", "rotator", "rotator", "rotator">>,
         <<"rotator", "rotator", "rotator", "rotator", "pool">>}}

\* The `with self.minute_lock` block of fetch_cycle (lines 619-630), without
\* and with the once-a-minute report, which calls pool.get_stats and
\* ip_rotator.get_stats and takes cursor_lock while minute_lock is held.
MinuteBlocks ==
    {Block("minute"),
     <<Acq("minute")>> \o Blocks(<<"pool", "rotator", "cursor">>) \o <<Rel("minute")>>}

\* fetch_cycle in the fetcher thread: the frontier is read under
\* cursor_lock, each result is handed to pool.add_servers, the new cursors
\* are appended under cursor_lock, then the minute block.
RECURSIVE Repeat(_, _)
Repeat(q, n) == IF n = 0 THEN <<>> ELSE q \o Repeat(q, n - 1)

FetchCyclePaths ==
    {Block("cursor") \o Repeat(Block("pool"), n) \o Block("cursor") \o mb :
        n \in 0..MaxAdds, mb \in MinuteBlocks}

\* Mutant: status() reads the rotator's statistics inside the pool lock.
StatusPath_Nested ==
    <<Acq("pool"), Acq("rotator"), Rel("rotator"), Rel("pool")>> \o Block("cursor")

\* status(): pool.get_stats(), ip_rotator.get_stats(), then cursor_lock.
StatusPath == Blocks(<<"pool", "rotator", "cursor">>)

\* The routes: /status, /get-server, /report-dead, /release and /health
\* (one pool call), /get-batch (two), /add-pool (three), /ips.
HandlerPaths ==
    {StatusPath, Block("pool"), Blocks(<<"pool", "pool">>),
     Blocks(<<"pool", "pool", "pool">>), Block("rotator")}

PathsOf(t) ==
    IF t = FetcherThread THEN FetchCyclePaths
    ELSE IF t \in WorkerThreads THEN FetchPagePaths
    ELSE HandlerPaths

\* A thread enters a call.
LockCall(t) ==
    /\ todo[t] = <<>>
    /\ \E path \in PathsOf(t) : todo' = [todo EXCEPT ![t] = path]
    /\ ret' = [op |-> "call", thread |-> t]
    /\ UNCHANGED owner

\* threading.Lock is not reentrant: acquire waits until the lock is free.
LockAcquire(t) ==
    /\ todo[t] # <<>>
    /\ Head(todo[t]).op = "acquire"
    /\ owner[Head(todo[t]).lock] = NoThread
    /\ owner' = [owner EXCEPT ![Head(todo[t]).lock] = t]
    /\ todo' = [todo EXCEPT ![t] = Tail(@)]
    /\ ret' = [op |-> "acquire", thread |-> t]

LockRelease(t) ==
    /\ todo[t] # <<>>
    /\ Head(todo[t]).op = "release"
    /\ owner' = [owner EXCEPT ![Head(todo[t]).lock] = NoThread]
    /\ todo' = [todo EXCEPT ![t] = Tail(@)]
    /\ ret' = [op |-> "release", thread |-> t]

RotTick ==
    /\ clock + RotQuantum <= MaxRotTicks * RotQuantum
    /\ clock' = clock + RotQuantum
    /\ ret' = [op |-> "tick"]
    /\ UNCHANGED <<available, assigned, dead, stats>>
    /\ UNCHANGED crawlvars

\* ------------------------------------------------------------------ time
Tick ==
    /\ clock + Quantum <= MaxTicks * Quantum
    /\ clock' = clock + Quantum
    /\ ret' = [op |-> "tick"]
    /\ UNCHANGED <<available, assigned, dead, stats>>
    /\ UNCHANGED crawlvars

\* ------------------------------------------------------------------ spec
EmptyMap == [x \in {} |-> 0]

Init ==
    /\ clock = 0
    /\ available = <<>>
    /\ assigned = EmptyMap
    /\ dead = EmptyMap
    /\ stats = [total_given |-> 0, total_received |-> 0, recycled |-> 0,
                duplicates_skipped |-> 0, dead_skipped |-> 0, fetch_errors |-> 0,
                fetch_success |-> 0, peak_servers |-> 0, normal_servers |-> 0]
    /\ ret = [op |-> "init"]
    /\ static_index = 0
    /\ static_status = [i \in StaticIdx |-> FreshStatus]
    /\ residential_stats = FreshResidential
    /\ page = [w \in Workers |-> IdlePage]
    /\ cursors_asc = <<>>
    /\ cursors_desc = <<>>
    /\ fetches = <<>>
    /\ owner = [l \in Locks |-> NoThread]
    /\ todo = [t \in LockThreads |-> <<>>]
    /\ server_cache = <<>>
    /\ blacklist = EmptyMap
    /\ jobs_assigned = 0
    /\ handed = [id \in Ids |-> Never]

BatchCounts == (0 - 1)..MaxBatch \cup {10000}

\* The cumulative counters are unbounded in the program; a run of the model
\* ends where a call would push one past its cap.
StatsBounded ==
    /\ stats'.total_given <= MaxCount
    /\ stats'.total_received <= MaxCount
    /\ stats'.recycled <= MaxSkip
    /\ stats'.duplicates_skipped <= MaxSkip
    /\ stats'.dead_skipped <= MaxSkip

\* The calls a client or the fetcher can make, each with its inputs.
AddServers ==
    /\ \E servers \in ServerLists, now \in StaleNows :
          add_servers(servers, now) /\ StatsBounded
    /\ UNCHANGED crawlvars

GetServer ==
    /\ \E now \in StaleNows : get_server(now) /\ StatsBounded
    /\ UNCHANGED crawlvars

GetBatch ==
    /\ \E n \in BatchCounts : get_batch(n) /\ StatsBounded
    /\ UNCHANGED crawlvars

ReportDead ==
    /\ \E job_id \in Ids : report_dead(job_id)
    /\ UNCHANGED crawlvars

ReleaseServer ==
    /\ \E job_id \in Ids : release_server(job_id)
    /\ UNCHANGED crawlvars

Count == count /\ StatsBounded /\ UNCHANGED crawlvars

GetStats == get_stats /\ StatsBounded /\ UNCHANGED crawlvars

Next ==
    \/ AddServers
    \/ GetServer
    \/ GetBatch
    \/ ReportDead
    \/ ReleaseServer
    \/ Count
    \/ GetStats
    \/ Tick

Spec == Init /\ [][Next]_vars

\* ------------------------------------------------- the ordering scenario
\* Four records with the metrics 2, 5, 6 and 8, handed to add_servers in one
\* list, in every order, then taken one by one with get_server.
OrderMetrics == <<2, 5, 6, 8>>

OrderItem(i) == [kind |-> "dict", id |-> i, ptype |-> "int", playing |-> OrderMetrics[i]]

OrderLists ==
    {<<OrderItem(p[1]), OrderItem(p[2]), OrderItem(p[3]), OrderItem(p[4])>> :
        p \in {q \in [1..4 -> 1..4] : \A i, j \in 1..4 : q[i] = q[j] => i = j}}

\* One list is admitted and taken; a second admission would start the
\* scenario again.
OrderBounded ==
    /\ stats'.total_received <= Cardinality({i \in 1..4 : OrderMetrics[i] >= MIN_PLAYERS})
    /\ stats'.duplicates_skipped = 0

OrderAdd ==
    /\ \E servers \in OrderLists, now \in StaleNows :
          add_servers(servers, now) /\ OrderBounded
    /\ UNCHANGED crawlvars

OrderGet ==
    /\ \E now \in StaleNows : get_server(now) /\ OrderBounded
    /\ UNCHANGED crawlvars

OrderNext == OrderAdd \/ OrderGet \/ Tick

SpecOrder == Init /\ [][OrderNext]_vars

\* ------------------------------------------------ the admission scenario
\* add_servers with every shape of item (bare id, dict, dict with a null
\* metric, dict without id, a value of another type) in lists of up to
\* MaxAddItems items, between the other pool calls, all within one clock
\* quantum (nothing expires).
MaxAddItems == 2

AddMetrics == {2, 6}

AddItems ==
    StrItems \cup NullItems \cup NoIdItems \cup OtherItems
        \cup {it \in DictItems : it.playing \in AddMetrics}

AddLists == SeqsUpTo(AddItems, MaxAddItems)

AddBounded ==
    /\ stats'.total_given <= MaxSkip
    /\ stats'.total_received <= MaxCount
    /\ stats'.recycled <= MaxSkip
    /\ stats'.duplicates_skipped <= MaxCount
    /\ stats'.dead_skipped <= MaxSkip

AdmitCall ==
    /\ \E servers \in AddLists, now \in StaleNows :
          add_servers(servers, now) /\ AddBounded
    /\ UNCHANGED crawlvars

AdmitGet ==
    /\ \E now \in StaleNows : get_server(now) /\ AddBounded
    /\ UNCHANGED crawlvars

AdmitNext == AdmitCall \/ AdmitGet \/ ReportDead \/ ReleaseServer

SpecAdd == Init /\ [][AdmitNext]_vars

\* ----------------------------------------------------- the bulk scenario
\* One list of more records than a batch may hold is admitted, then taken
\* in batches of every size around the cap.
MaxOver == 2

BulkItem(i) == [kind |-> "dict", id |-> i, ptype |-> "int", playing |-> 6]

BulkLists ==
    {[i \in 1..n |-> BulkItem(i)] : n \in (BATCH_CAP - 1)..(BATCH_CAP + MaxOver)}

BulkCounts ==
    {0 - 1, 0, 1, BATCH_CAP - 1, BATCH_CAP, BATCH_CAP + 1, 10000}

\* One list is admitted; a second admission would start the scenario again.
BulkBounded == stats'.duplicates_skipped = 0

BulkAdd ==
    /\ \E servers \in BulkLists : add_servers(servers, clock) /\ BulkBounded
    /\ UNCHANGED crawlvars

BulkBatch ==
    /\ \E n \in BulkCounts : get_batch(n) /\ BulkBounded
    /\ UNCHANGED crawlvars

BulkNext == BulkAdd \/ BulkBatch

SpecBulk == Init /\ [][BulkNext]_vars

\* ------------------------------------------------------ the fetch scenario
\* Worker threads run fetch_page against the rotator while time passes.
RECURSIVE UsageUpTo(_, _)
UsageUpTo(status, i) ==
    IF i < 0 THEN 0 ELSE status[i].usage + UsageUpTo(status, i - 1)

\* The usage counters are unbounded in the program; a run of the model ends
\* where a get_proxy would hand out one lease too many.
FetchBounded ==
    UsageUpTo(static_status', NumStatic - 1) + residential_stats'.usage <= MaxLeases

FetchBegin ==
    /\ \E w \in Workers, sort_order \in Orders :
          FetchStart(w, sort_order) /\ FetchBounded
    /\ UNCHANGED cyclevars
    /\ UNCHANGED lockvars
    /\ UNCHANGED oldvars

FetchAnswer ==
    /\ \E w \in Workers, outcome \in Outcomes,
          servers \in BOOLEAN, next_cursor \in BOOLEAN :
          FetchRespond(w, outcome, servers, next_cursor) /\ FetchBounded
    /\ UNCHANGED cyclevars
    /\ UNCHANGED lockvars
    /\ UNCHANGED oldvars

FetchAgain ==
    /\ \E w \in Workers : FetchRetry(w) /\ FetchBounded
    /\ UNCHANGED cyclevars
    /\ UNCHANGED lockvars
    /\ UNCHANGED oldvars

FetchNext == FetchBegin \/ FetchAnswer \/ FetchAgain \/ RotTick

SpecFetch == Init /\ [][FetchNext]_vars

\* ------------------------------------------------------- the plan scenario
\* fetch_cycle plans from frontiers of every kind: empty, one token, as
\* many as the depth, more than the depth, and full; the clock passes from
\* normal hours into peak hours.
FrontierSizes == {0, 1, DEPTH_NORMAL, DEPTH_PEAK + 1, CURSOR_MAXLEN}

\* A frontier of n tokens; the tokens of a direction are numbered from the
\* oldest.
Frontier(n) == [i \in 1..n |-> i]

InitPlan ==
    /\ clock = 0
    /\ available = <<>>
    /\ assigned = EmptyMap
    /\ dead = EmptyMap
    /\ stats = [total_given |-> 0, total_received |-> 0, recycled |-> 0,
                duplicates_skipped |-> 0, dead_skipped |-> 0, fetch_errors |-> 0,
                fetch_success |-> 0, peak_servers |-> 0, normal_servers |-> 0]
    /\ ret = [op |-> "init"]
    /\ static_index = 0
    /\ static_status = [i \in StaticIdx |-> FreshStatus]
    /\ residential_stats = FreshResidential
    /\ page = [w \in Workers |-> IdlePage]
    /\ cursors_asc \in {Frontier(n) : n \in FrontierSizes}
    /\ cursors_desc \in {Frontier(n) : n \in FrontierSizes}
    /\ fetches = <<>>
    /\ owner = [l \in Locks |-> NoThread]
    /\ todo = [t \in LockThreads |-> <<>>]
    /\ server_cache = <<>>
    /\ blacklist = EmptyMap
    /\ jobs_assigned = 0
    /\ handed = [id \in Ids |-> Never]

PlanNext == CyclePlan \/ Tick

SpecPlan == InitPlan /\ [][PlanNext]_vars

\* ------------------------------------------------ src/unnamed/part_000
\* The older variant of the service: one list server_cache, one dict
\* blacklist, one lock.  Every function below runs with the lock held.
\* cleanup_blacklist: entries whose end is not after now are deleted.
cleanup_blacklist(bl, now) == [id \in {j \in DOMAIN bl : bl[j] > now} |-> bl[id]]

\* set(server_cache) | set(blacklist.keys())
ExistingIds(cache, bl) == {cache[i] : i \in DOMAIN cache} \cup DOMAIN bl

\* The loop of add_pool and of fetch_job_ids: existing_ids is computed
\* before the loop and not added to inside it.
NewJobs(servers, existing_ids) ==
    SelectSeq(servers, LAMBDA job_id : job_id # NoId /\ job_id \notin existing_ids)

\* server_cache[:CACHE_LIMIT]
Limited(cache) == SubSeq(cache, 1, Min(Len(cache), CACHE_LIMIT))

\* /get-server of part_000
get_server_000 ==
    /\ \E bl \in {cleanup_blacklist(blacklist, clock)} :
          IF server_cache = <<>>
          THEN /\ blacklist' = bl
               /\ ret' = [op |-> "get_server_000", job_id |-> NoId]
               /\ UNCHANGED <<server_cache, jobs_assigned, handed>>
          ELSE /\ server_cache' = Tail(server_cache)
               /\ jobs_assigned' = jobs_assigned + 1
               /\ blacklist' = SetKey(bl, Head(server_cache), clock + BLACKLIST_DURATION)
               /\ handed' = [handed EXCEPT ![Head(server_cache)] = clock]
               /\ ret' = [op |-> "get_server_000", job_id |-> Head(server_cache)]
    /\ UNCHANGED clock

\* /add-pool of part_000 with a list of job ids
add_pool(servers) ==
    /\ \E bl \in {cleanup_blacklist(blacklist, clock)} :
       \E new_jobs \in {NewJobs(servers, ExistingIds(server_cache, bl))} :
          /\ blacklist' = bl
          /\ server_cache' = Limited(server_cache \o new_jobs)
          /\ ret' = [op |-> "add_pool", servers |-> servers, added |-> Len(new_jobs)]
    /\ UNCHANGED <<clock, jobs_assigned, handed>>

\* One round of fetch_job_ids with the ids of the response
fetch_job_ids(servers) ==
    /\ \E bl \in {cleanup_blacklist(blacklist, clock)} :
       \E new_jobs \in {NewJobs(servers, ExistingIds(server_cache, bl))} :
          /\ blacklist' = bl
          /\ server_cache' = Limited(server_cache \o new_jobs)
          /\ ret' = [op |-> "fetch_job_ids", servers |-> servers]
    /\ UNCHANGED <<clock, jobs_assigned, handed>>

\* clear_cache_periodically wakes up: its first sleep ends
\* CACHE_CLEAR_INTERVAL after the start of the program.
clear_cache_periodically ==
    /\ clock >= CACHE_CLEAR_INTERVAL
    /\ server_cache' = <<>>
    /\ blacklist' = EmptyMap
    /\ ret' = [op |-> "clear_cache"]
    /\ UNCHANGED <<clock, jobs_assigned, handed>>

\* ------------------------------------------------------ the cycle scenario
\* Whole fetch cycles on frontiers of several sizes.  A result with no
\* records and no cursor changes nothing, so only the results that bring
\* something are drawn: at most MaxNew a cycle, from the first and the last
\* futures of the plan.
NewTokens == {CURSOR_MAXLEN + 1, CURSOR_MAXLEN + 2}

CycleServers ==
    {<<>>,
     <<[kind |-> "dict", id |-> 1, ptype |-> "int", playing |-> 6]>>,
     <<[kind |-> "dict", id |-> 2, ptype |-> "none", playing |-> 0]>>}

PickIdx == {i \in DOMAIN fetches : i <= 2 \/ i >= Len(fetches) - 1}

Picks == {q \in SeqsUpTo(PickIdx, MaxNew) : \A i, j \in DOMAIN q : i # j => q[i] # q[j]}

CycleResults ==
    UNION {{[k \in DOMAIN q |-> [sort_order |-> fetches[q[k]].sort_order,
                                 servers |-> sv[k], next_cursor |-> nc[k]]] :
               sv \in [DOMAIN q -> CycleServers],
               nc \in [DOMAIN q -> {NoCursor} \cup NewTokens]} : q \in Picks}

\* The new tokens of a frontier, which are its newest elements.
NewIn(q) ==
    Cardinality({k \in Max(1, Len(q) - MaxTokens - MaxNew + 1)..Len(q) :
                    q[k] > CURSOR_MAXLEN})

CycleBounded ==
    /\ NewIn(cursors_asc') + NewIn(cursors_desc') <= MaxTokens
    /\ StatsBounded

CycleEnd == \E results \in CycleResults : CycleStore(results) /\ CycleBounded

CycleNext == CyclePlan \/ CycleEnd

\* The frontiers at the start: one token each, or full.
InitCycle ==
    /\ InitPlan
    /\ Len(cursors_asc) \in {1, CURSOR_MAXLEN}
    /\ Len(cursors_desc) \in {1, CURSOR_MAXLEN}

SpecCycle == InitCycle /\ [][CycleNext]_vars

\* --------------------------------------------------- the part_000 scenario
OldLists == SeqsUpTo(Ids, MaxOldItems)

OldFetched == SeqsUpTo(Ids \cup {NoId}, MaxOldItems)

OldBounded == Len(server_cache') <= MaxCache /\ jobs_assigned' <= MaxAssigned

newvars ==
    <<available, assigned, dead, stats,
      static_index, static_status, residential_stats, page,
      cursors_asc, cursors_desc, fetches, owner, todo>>

OldGet == get_server_000 /\ OldBounded /\ UNCHANGED newvars

OldAdd == (\E servers \in OldLists : add_pool(servers)) /\ OldBounded /\ UNCHANGED newvars

OldFetch ==
    (\E servers \in OldFetched : fetch_job_ids(servers)) /\ OldBounded /\ UNCHANGED newvars

OldClear == clear_cache_periodically /\ UNCHANGED newvars

OldTick ==
    /\ clock + OldQuantum <= MaxOldTicks * OldQuantum
    /\ clock' = clock + OldQuantum
    /\ ret' = [op |-> "tick"]
    /\ UNCHANGED oldvars
    /\ UNCHANGED newvars

OldNext == OldGet \/ OldAdd \/ OldFetch \/ OldClear \/ OldTick

SpecOld == Init /\ [][OldNext]_vars

\* ---------------------------------------------------- the rotator scenario
\* The public methods of SmartIPRotator called directly, in any order, with
\* enough errors in a row for the cooldown to reach its cap.
Endpoints ==
    {[proxy_type |-> "static", ip_idx |-> i] : i \in StaticIdx}
        \cup {[proxy_type |-> "residential", ip_idx |-> NoIdx]}

RECURSIVE SumUpTo(_, _, _)
SumUpTo(status, field, i) ==
    IF i < 0 THEN 0 ELSE status[i][field] + SumUpTo(status, field, i - 1)

RotatorBounded ==
    /\ SumUpTo(static_status', "errors", NumStatic - 1)
          + residential_stats'.errors <= MaxErrors
    /\ SumUpTo(static_status', "success", NumStatic - 1)
          + residential_stats'.success <= MaxSuccess
    /\ SumUpTo(static_status', "usage", NumStatic - 1)
          + residential_stats'.usage <= MaxUsage

RotatorProxy ==
    /\ \E g \in {get_proxy(Rotator, clock)} :
          /\ SetRotator(g)
          /\ ret' = [op |-> "get_proxy", lease |-> Lease(g)]
    /\ RotatorBounded
    /\ UNCHANGED <<clock, available, assigned, dead, stats, page>>
    /\ UNCHANGED cyclevars
    /\ UNCHANGED lockvars
    /\ UNCHANGED oldvars

RotatorSuccess ==
    /\ \E e \in Endpoints :
          /\ SetRotator(report_success(Rotator, e.proxy_type, e.ip_idx))
          /\ ret' = [op |-> "report_success", proxy_type |-> e.proxy_type,
                     idx |-> e.ip_idx]
    /\ RotatorBounded
    /\ UNCHANGED <<clock, available, assigned, dead, stats, page>>
    /\ UNCHANGED cyclevars
    /\ UNCHANGED lockvars
    /\ UNCHANGED oldvars

RotatorError ==
    /\ \E e \in Endpoints, is_rate_limit \in BOOLEAN :
          /\ SetRotator(report_error(Rotator, e.proxy_type, e.ip_idx,
                                     is_rate_limit, clock))
          /\ ret' = [op |-> "report_error", proxy_type |-> e.proxy_type,
                     idx |-> e.ip_idx, is_rate_limit |-> is_rate_limit]
    /\ RotatorBounded
    /\ UNCHANGED <<clock, available, assigned, dead, stats, page>>
    /\ UNCHANGED cyclevars
    /\ UNCHANGED lockvars
    /\ UNCHANGED oldvars

RotatorNext == RotatorProxy \/ RotatorSuccess \/ RotatorError \/ RotTick

SpecRotator == Init /\ [][RotatorNext]_vars

\* ------------------------------------------------------- the lock scenario
\* The threads enter their calls at any time and take the locks as they get
\* them.
datavars ==
    <<clock, available, assigned, dead, stats,
      static_index, static_status, residential_stats, page,
      cursors_asc, cursors_desc, fetches,
      server_cache, blacklist, jobs_assigned, handed>>

LockEnter == (\E t \in LockThreads : LockCall(t)) /\ UNCHANGED datavars

LockTake == (\E t \in LockThreads : LockAcquire(t)) /\ UNCHANGED datavars

LockDrop == (\E t \in LockThreads : LockRelease(t)) /\ UNCHANGED datavars

LockNext == LockEnter \/ LockTake \/ LockDrop

SpecLocks == Init /\ [][LockNext]_vars

\* ================================================================ claims
GetOps == {"get_server", "get_batch"}

\* The calls that run _cleanup under the lock.
CleanupOps == {"add_servers", "get_server", "get_batch", "count", "get_stats"}

\* The ids a get call handed out.
Returned(r) == {r.results[i].job_id : i \in DOMAIN r.results}

\* C1: a get_server/get_batch call never returns an id that is in _assigned
\* when the call starts (a lease not yet released, dead-reported or expired),
\* never returns an id twice in one batch, and leaves every returned id
\* leased; add_servers never makes a leased id Available.
C1_NoDoubleLease ==
    [][/\ ret'.op \in GetOps =>
            /\ \A id \in Returned(ret') :
                  id \notin DOMAIN assigned /\ id \in DOMAIN assigned'
            /\ Cardinality(Returned(ret')) = Len(ret'.results)
       /\ ret'.op = "add_servers" =>
            \A id \in DOMAIN assigned' : id \notin Keys(available')]_vars

\* C1 witness: a get call handed out an id while another id was on lease.
C1_Witness ==
    /\ ret.op \in GetOps
    /\ Len(ret.results) >= 1
    /\ \E id \in DOMAIN assigned : id \notin Returned(ret)

\* C2 (as claimed): a lease older than GIVEN_TTL that a cleanup finds is
\* put back into _available by that cleanup.
C2_RecycledToAvailable ==
    [][ret'.op \in CleanupOps =>
          \A id \in DOMAIN assigned :
              ExpiredAssigned(clock, assigned[id]) => id \in Keys(available')]_vars

\* C3 (as claimed): release_server on a leased id puts the record back into
\* _available without marking it dead; on any other id it changes nothing.
C3_ReleaseReturns ==
    [][ret'.op = "release_server" =>
          IF ret'.job_id \in DOMAIN assigned
          THEN /\ ret'.job_id \notin DOMAIN assigned'
               /\ ret'.job_id \notin DOMAIN dead'
               /\ ret'.job_id \in Keys(available')
          ELSE UNCHANGED <<available, assigned, dead, stats>>]_vars

\* The records get_server can choose from: those of _available that the
\* call's own _cleanup keeps.
Live == {available[i] : i \in {j \in DOMAIN available :
                                  ~ExpiredAvailable(clock, available[j].t)}}

\* The record a get_server step took, read off the pre-state by its id.
Taken(r) == Entry(available, r.results[1].job_id)

\* Selection part shared by the two readings of C4: the record returned is a
\* live record of maximal priority, it alone leaves _available, and it enters
\* _assigned with the call's `now`, which is what the returned age is
\* measured from.
C4_Moves ==
    /\ ret'.results[1].job_id \in {r.id : r \in Live}
    /\ \A r \in Live : r.pr <= Taken(ret').pr
    /\ ret'.results[1].priority = Taken(ret').pr
    /\ ret'.results[1].players = Taken(ret').players
    /\ Keys(available') = {r.id : r \in Live} \ {Taken(ret').id}
    /\ DOMAIN assigned' =
          {id \in DOMAIN assigned : ~ExpiredAssigned(clock, assigned[id])}
              \cup {Taken(ret').id}
    /\ assigned'[Taken(ret').id] \in StaleNows
    /\ ret'.results[1].age = assigned'[Taken(ret').id] - Taken(ret').t

\* C4 (as claimed): among the live records of maximal priority get_server
\* returns the most recently added one.
C4_NewestFirst ==
    [][(ret'.op = "get_server" /\ Live # {}) =>
          /\ Len(ret'.results) = 1
          /\ C4_Moves
          /\ \A r \in Live : r.pr = Taken(ret').pr => r.t <= Taken(ret').t]_vars

\* C4 (amended): among the live records of maximal priority get_server
\* returns the one added EARLIEST (the sort key is (priority, -added_time),
\* reversed); the rest of the claim stands.
C4_OldestFirst ==
    [][(ret'.op = "get_server" /\ Live # {}) =>
          /\ Len(ret'.results) = 1
          /\ C4_Moves
          /\ \A r \in Live : r.pr = Taken(ret').pr => r.t >= Taken(ret').t]_vars

\* C4 witness: get_server returned a record while a record of the same
\* priority with a later added time stayed in _available.
C4_Witness ==
    /\ ret.op = "get_server"
    /\ Len(ret.results) = 1
    /\ ret.results[1].job_id \in DOMAIN assigned
    /\ \E i \in DOMAIN available :
          /\ available[i].pr = ret.results[1].priority
          /\ available[i].t >
                assigned[ret.results[1].job_id] - ret.results[1].age

\* C5 (as claimed): the four records are all admitted, and successive
\* get_server calls return the metrics 6, 5, 8, 2 in that order.
C5_AllFourInOrder ==
    [][/\ (ret'.op = "add_servers" /\ stats.total_received = 0) =>
            ret'.added = 4
       /\ (ret'.op = "get_server" /\ stats.total_given < 4 /\ clock = 0
              /\ stats.total_received > 0) =>
            /\ Len(ret'.results) = 1
            /\ ret'.results[1].players = <<6, 5, 8, 2>>[stats.total_given + 1]]_vars

\* C5 (amended): the metric-2 record is rejected by the players < 5 filter;
\* the other three are admitted and successive get_server calls return the
\* metrics 6, 5, 8 in that order; the next call returns nothing.
C5_ThreeInOrder ==
    [][/\ (ret'.op = "add_servers" /\ stats.total_received = 0) =>
            /\ ret'.added = 3
            /\ \A i \in DOMAIN available' : available'[i].players # 2
       /\ ret'.op = "get_server" =>
            IF stats.total_given < 3 /\ Live # {}
            THEN /\ Len(ret'.results) = 1
                 /\ ret'.results[1].players = <<6, 5, 8>>[stats.total_given + 1]
            ELSE ret'.results = <<>>]_vars

\* C5 witness: the third get_server of the scenario returned the metric-8
\* record, all at the time the list was added.
C5_Witness ==
    /\ ret.op = "get_server"
    /\ stats.total_given = 3
    /\ Len(ret.results) = 1
    /\ ret.results[1].players = 8
    /\ ret.results[1].age = 0

\* A list of the kind C6 speaks of: bare id strings and {id, playing}
\* objects with a numeric metric, all with different ids.
WellFormedList(L) ==
    /\ \A i \in DOMAIN L :
          /\ L[i].kind \in {"str", "dict"}
          /\ L[i].id # NoId
          /\ L[i].ptype = "int"
    /\ \A i, j \in DOMAIN L : L[i].id = L[j].id => i = j

\* Two add_servers calls in a row with the same well-formed list, the first
\* of which met none of its ids in the pool, and nothing expired since.
SameListTwice ==
    /\ ret.op = "add_servers"
    /\ ret'.op = "add_servers"
    /\ ret'.servers = ret.servers
    /\ WellFormedList(ret.servers)
    /\ ret.duplicates = 0
    /\ ret.dead = 0
    /\ \A i \in DOMAIN available : ~ExpiredAvailable(clock, available[i].t)

\* The items of a list that pass the players >= 5 filter.
Admissible(L) == {i \in DOMAIN L : Players(L[i]) >= MIN_PLAYERS}

\* C6 (as claimed): the first call returns added = N, duplicates = 0 and
\* the second added = 0, duplicates = N, N the length of the list.
C6_AllAddedThenAllDuplicates ==
    [][SameListTwice =>
          /\ ret.added = Len(ret.servers)
          /\ ret'.added = 0
          /\ ret'.duplicates = Len(ret.servers)]_vars

\* C6 (amended): the same with N replaced by M, the number of items whose
\* metric passes the players >= 5 filter (a bare id string counts as 0
\* players and is never admitted, nor counted as a duplicate).
C6_AdmittedThenDuplicates ==
    [][SameListTwice =>
          /\ ret.added = Cardinality(Admissible(ret.servers))
          /\ ret'.added = 0
          /\ ret'.duplicates = Cardinality(Admissible(ret.servers))]_vars

\* C6 witness: a call with a two-item well-formed list that found both items
\* in _available as it had stored them, and counted two duplicates.
C6_Witness ==
    /\ ret.op = "add_servers"
    /\ Len(ret.servers) = 2
    /\ WellFormedList(ret.servers)
    /\ ret.added = 0
    /\ ret.duplicates = 2
    /\ \A i \in DOMAIN ret.servers :
          \E j \in DOMAIN available :
              /\ available[j].id = ret.servers[i].id
              /\ available[j].players = ret.servers[i].playing

\* C7: a record handed out by get_server/get_batch is never older than
\* SERVER_TTL, measured from its stored added time to the time of the call;
\* the age the call reports is within SERVER_TTL too.
C7_NoExpiredReturned ==
    [][ret'.op \in GetOps =>
          \A i \in DOMAIN ret'.results :
              /\ ret'.results[i].job_id \in Keys(available)
              /\ clock - Entry(available, ret'.results[i].job_id).t <= SERVER_TTL
              /\ ret'.results[i].age <= SERVER_TTL]_vars

\* C7 witness: a get call returned nothing although a record had been
\* admitted that was never handed out and never reported dead (no dead entry
\* can have expired yet): that record had outlived SERVER_TTL.
C7_Witness ==
    /\ ret.op \in GetOps
    /\ ret.results = <<>>
    /\ available = <<>>
    /\ stats.total_received > 0
    /\ stats.total_given = 0
    /\ DOMAIN dead = {}
    /\ clock <= DEAD_TTL

\* C8: while no more than 600 s have passed since the last report_dead(X),
\* an add_servers call whose list holds only X adds nothing and leaves X
\* out of _available.
C8_DeadSuppressed ==
    [][ret'.op = "add_servers" =>
          \A X \in DOMAIN dead :
              (/\ ret'.servers # <<>>
               /\ \A i \in DOMAIN ret'.servers : ret'.servers[i].id = X
               /\ clock - dead[X] <= DEAD_TTL)
              => (ret'.added = 0 /\ X \notin Keys(available'))]_vars

\* C8 witness: an add_servers call offered an admissible record for an id
\* reported dead exactly 600 s earlier, and skipped it as dead.
C8_Witness ==
    /\ ret.op = "add_servers"
    /\ Len(ret.servers) = 1
    /\ ret.servers[1].playing >= MIN_PLAYERS
    /\ ret.dead = 1
    /\ ret.added = 0
    /\ ret.servers[1].id \in DOMAIN dead
    /\ clock - dead[ret.servers[1].id] >= SERVER_TTL

\* C9: an id in _dead is neither in _available nor in _assigned and is not
\* handed out; it leaves _dead only by expiring in a _cleanup;
\* release_server leaves _dead as it is, and report_dead puts the id in
\* _dead whatever state it was in.
C9_DeadIsTerminal ==
    [][/\ \A X \in DOMAIN dead' :
             X \notin Keys(available') /\ X \notin DOMAIN assigned'
       /\ \A X \in (DOMAIN dead) \ (DOMAIN dead') :
             ExpiredDead(clock, dead[X]) /\ ret'.op \in CleanupOps
       /\ ret'.op \in GetOps => Returned(ret') \cap DOMAIN dead = {}
       /\ ret'.op = "release_server" => dead' = dead
       /\ ret'.op = "report_dead" =>
             ret'.job_id \in DOMAIN dead' /\ dead'[ret'.job_id] = clock]_vars

\* C9 witness: release_server was called on an id that is in _dead, while
\* the other id is on lease.
C9_Witness ==
    /\ ret.op = "release_server"
    /\ ret.job_id \in DOMAIN dead
    /\ DOMAIN assigned # {}

\* The ids add_servers meets again: in _available and not expired, or on a
\* lease that has not expired, when the call's _cleanup has run.
LiveIds == {r.id : r \in Live}

LeasedIds == {id \in DOMAIN assigned : ~ExpiredAssigned(clock, assigned[id])}

\* C10: add_servers leaves the stored record (metric, added time, priority)
\* of every live id of its list, and the lease stamp of every leased id of
\* its list, as they were, and counts the id as a duplicate; a call whose
\* list holds only such ids changes nothing but the duplicate counter
\* (and what its _cleanup expires).
C10_RediscoveryNoOp ==
    [][ret'.op = "add_servers" =>
          /\ \A i \in DOMAIN ret'.servers :
                /\ JobId(ret'.servers[i]) \in LiveIds =>
                      /\ JobId(ret'.servers[i]) \in Keys(available')
                      /\ Entry(available', JobId(ret'.servers[i])) =
                            Entry(available, JobId(ret'.servers[i]))
                /\ JobId(ret'.servers[i]) \in LeasedIds =>
                      /\ JobId(ret'.servers[i]) \in DOMAIN assigned'
                      /\ assigned'[JobId(ret'.servers[i])] =
                            assigned[JobId(ret'.servers[i])]
                      /\ JobId(ret'.servers[i]) \notin Keys(available')
          /\ (/\ ~ret'.raised
              /\ \A i \in DOMAIN ret'.servers :
                    JobId(ret'.servers[i]) \in LiveIds \cup LeasedIds)
             => /\ ret'.added = 0
                /\ ret'.duplicates = Len(ret'.servers)
                /\ available' = CleanAvailable(available, clock)
                /\ assigned' = CleanAssigned(assigned, clock)
                /\ stats' = [CleanStats(stats, assigned, clock) EXCEPT
                                !.duplicates_skipped = @ + Len(ret'.servers)]]_vars

\* C10 witness: an add_servers call met a record again one quantum or more
\* after it was added, and left its added time alone.
C10_Witness ==
    /\ ret.op = "add_servers"
    /\ Len(ret.servers) = 1
    /\ ret.duplicates = 1
    /\ \E i \in DOMAIN available :
          /\ available[i].id = ret.servers[1].id
          /\ available[i].t < clock
          /\ available[i].players # ret.servers[1].playing

\* n get_server calls one after the other at the instant `now`, from the
\* pool s = [av, a, d, st], collecting what they return.
RECURSIVE RepeatGet(_, _, _)
RepeatGet(s, n, now) ==
    IF n <= 0 THEN s
    ELSE LET c   == Cleanup(s.av, s.a, s.d, s.st, now)
             acc == TakeOne(c, now)
         IN  IF acc.given = 0
             THEN \* the calls after one that found nothing find the same
                  [av |-> c.av, a |-> c.a, d |-> c.d, st |-> c.st,
                   results |-> s.results]
             ELSE RepeatGet([av |-> acc.av, a |-> acc.a, d |-> c.d,
                             st |-> [c.st EXCEPT !.total_given = @ + acc.given],
                             results |-> s.results \o acc.results],
                            n - 1, now)

\* What get_server and get_batch both report of a record.
Handed(results) ==
    [i \in DOMAIN results |->
        [job_id |-> results[i].job_id, players |-> results[i].players,
         priority |-> results[i].priority, age |-> results[i].age]]

\* C11: for n >= 1, get_batch(n) returns the records n get_server calls at the same
\* instant return, in the same order (fewer than n, or none, when the pool
\* runs out), leaves _available, _assigned, _dead and the counters as they
\* leave them (a state that a further call at that instant, finding
\* nothing, would leave alone), and adds the number of records returned to
\* total_given.
C11_BatchIsRepeatedGet ==
    [][(ret'.op = "get_batch" /\ ret'.count >= 1) =>
          \E r \in {RepeatGet([av |-> available, a |-> assigned, d |-> dead,
                               st |-> stats, results |-> <<>>],
                              BatchCount(ret'.count), clock)} :
              /\ Handed(ret'.results) = Handed(r.results)
              /\ available' = r.av
              /\ assigned' = r.a
              /\ dead' = r.d
              /\ stats' = r.st
              /\ Cleanup(r.av, r.a, r.d, r.st, clock) =
                    [av |-> r.av, a |-> r.a, d |-> r.d, st |-> r.st]
              /\ Len(ret'.results) <= ret'.count
              /\ stats'.total_given = stats.total_given + Len(ret'.results)]_vars

\* C11 witness: a get_batch(2) handed out two records of equal priority.
C11_Witness ==
    /\ ret.op = "get_batch"
    /\ ret.count = 2
    /\ Len(ret.results) = 2
    /\ ret.results[1].priority = ret.results[2].priority

\* C12: a get_batch request returns at most 50 records and leases at most
\* 50 in that call, whatever count it asks for; with count <= 0 it returns
\* and leases none.
C12_BatchCapped ==
    [][ret'.op = "get_batch" =>
          /\ Len(ret'.results) <= BATCH_CAP
          /\ Cardinality((DOMAIN assigned') \ (DOMAIN assigned)) <= BATCH_CAP
          /\ stats'.total_given - stats.total_given <= BATCH_CAP
          /\ ret'.count <= 0 =>
                /\ ret'.results = <<>>
                /\ (DOMAIN assigned') \subseteq (DOMAIN assigned)
                /\ stats'.total_given = stats.total_given]_vars

\* C12 witness: a request for 10000 records got 50 of them and left the
\* rest of the pool in _available.
C12_Witness ==
    /\ ret.op = "get_batch"
    /\ ret.count = 10000
    /\ Len(ret.results) = BATCH_CAP
    /\ Cardinality(DOMAIN assigned) = BATCH_CAP
    /\ available # <<>>

\* What a _cleanup at the present instant leaves of the pool, written out:
\* the records, leases and dead entries within their time limits.
Fresh(r) == clock - r.t <= SERVER_TTL

Unexpired(f, ttl) == [k \in {j \in DOMAIN f : clock - f[j] <= ttl} |-> f[k]]

OnlyCleaned ==
    /\ available' = SelectSeq(available, Fresh)
    /\ assigned' = Unexpired(assigned, GIVEN_TTL)
    /\ dead' = Unexpired(dead, DEAD_TTL)
    /\ stats' = [stats EXCEPT
                    !.recycled = @ + Cardinality((DOMAIN assigned) \ (DOMAIN assigned'))]

\* C13 (as claimed): a get_server that returns None leaves _available,
\* _assigned, _dead and every counter of _stats as they were.
C13_EmptyGetNoEffect ==
    [][(ret'.op = "get_server" /\ ret'.results = <<>>) =>
          /\ available' = available
          /\ assigned' = assigned
          /\ dead' = dead
          /\ stats' = stats]_vars

\* C13 (amended): a get_server that returns None changes nothing but what
\* its _cleanup expires: records older than SERVER_TTL, dead entries older
\* than 600 s, and leases older than GIVEN_TTL, which it counts in recycled;
\* no record is left in _available.
C13_EmptyGetOnlyCleans ==
    [][(ret'.op = "get_server" /\ ret'.results = <<>>) =>
          (OnlyCleaned /\ available' = <<>>)]_vars

\* C13 witness: get_server returned None at a time when the only lease ever
\* given had run out and been recycled.
C13_Witness ==
    /\ ret.op = "get_server"
    /\ ret.results = <<>>
    /\ stats.total_given = 1
    /\ stats.recycled = 1
    /\ clock = 2 * Quantum

\* The items add_servers can admit: a dict with an id and an integer metric
\* of at least MIN_PLAYERS.
Admitted(item) ==
    /\ item.kind = "dict"
    /\ item.id # NoId
    /\ item.ptype = "int"
    /\ item.playing >= MIN_PLAYERS

\* C14 (as claimed): no item of the list aborts add_servers: the call
\* returns its counts, every admissible item of the list whose id is not
\* dead or leased is in _available afterwards, wherever it stands in the
\* list, and total_received has grown by the number of records added.
C14_MalformedSkipped ==
    [][ret'.op = "add_servers" =>
          /\ ~ret'.raised
          /\ \A i \in DOMAIN ret'.servers :
                (/\ Admitted(ret'.servers[i])
                 /\ ret'.servers[i].id \notin DOMAIN dead'
                 /\ ret'.servers[i].id \notin DOMAIN assigned')
                => ret'.servers[i].id \in Keys(available')
          /\ stats'.total_received =
                stats.total_received
                    + Len(available') - Len(SelectSeq(available, Fresh))]_vars

\* The snapshot get_stats returns shows the pool and the counters as the
\* call leaves them.
SnapshotOfPoststate ==
    /\ ret'.snapshot.available = Len(available')
    /\ ret'.snapshot.assigned = Cardinality(DOMAIN assigned')
    /\ ret'.snapshot.dead = Cardinality(DOMAIN dead')
    /\ \A f \in DOMAIN stats' : ret'.snapshot[f] = stats'[f]
    /\ ret'.snapshot.ttl_seconds = SERVER_TTL

\* C15 (as claimed): get_stats leaves _available, _assigned, _dead and the
\* cumulative counters unchanged and returns a snapshot of them.
C15_StatsReadOnly ==
    [][ret'.op = "get_stats" =>
          /\ available' = available
          /\ assigned' = assigned
          /\ dead' = dead
          /\ stats' = stats
          /\ SnapshotOfPoststate]_vars

\* C15 (amended): get_stats changes nothing but what its _cleanup expires
\* (expired records, dead entries and leases, the leases counted in
\* recycled), and its snapshot is of the pool as that cleanup leaves it.
C15_StatsOnlyCleans ==
    [][ret'.op = "get_stats" => (OnlyCleaned /\ SnapshotOfPoststate)]_vars

\* C15 witness: a get_stats call reported a recycled lease and no lease
\* left, with a record still available.
C15_Witness ==
    /\ ret.op = "get_stats"
    /\ ret.snapshot.recycled = 1
    /\ ret.snapshot.assigned = 0
    /\ ret.snapshot.available = 1
    /\ ret.snapshot.total_given = 1

\* The largest cap on _dead that the ids callers can name would exceed.
DeadCap == NumIds - 1

\* C16 (as claimed): _dead never holds more than a fixed number of ids;
\* a report_dead that would exceed the cap evicts the oldest entry.
C16_DeadBounded == Cardinality(DOMAIN dead) <= DeadCap

Last(q) == q[Len(q)]

\* The steps of fetch_page in which get_proxy handed out a lease.
Leased == ret'.op \in {"fetch_start", "fetch_retry", "fetch_return"} /\ ret'.lease # NoLease

\* The steps of fetch_page in which a request ended in `outcome`.
Responded(w, outcome) ==
    /\ ret'.op \in {"fetch_failed", "fetch_return"}
    /\ ret'.worker = w
    /\ page[w].pc = "request"
    /\ outcome = IF ret'.op = "fetch_return" THEN Last(ret'.log) ELSE Last(page'[w].log)

\* The errors the rotator has counted against the endpoint of a lease.
ErrorsOf(status, res, lease) ==
    IF lease.proxy_type = "static" THEN status[lease.ip_idx].errors ELSE res.errors

\* C18 (as claimed): a fetch_page call takes one lease and issues one
\* request; one that failed returns no records and no cursor.
C18_OneLeaseOneRequest ==
    [][ret'.op = "fetch_return" =>
          /\ ret'.leases = 1
          /\ Len(ret'.log) = 1
          /\ ret'.log[1] # "200" => (~ret'.servers /\ ~ret'.next_cursor)]_vars

\* C18 (amended): a fetch_page call issues one request, and a second one
\* only after the first ended in a rate-limit response or an exception; it
\* takes a lease for each request and one more, never used, after a second
\* rate-limit response; every request that fails is reported to the rotator
\* as an error of the endpoint it used; a call whose last request failed
\* returns no records and no cursor.
C18_AtMostOneRetry ==
    [][/\ ret'.op = "fetch_return" =>
             /\ Len(ret'.log) \in 1..MAX_RETRIES
             /\ Len(ret'.log) = MAX_RETRIES => ret'.log[1] \in {"429", "exception"}
             /\ ret'.leases = Len(ret'.log) + (IF Last(ret'.log) = "429" THEN 1 ELSE 0)
             /\ Last(ret'.log) # "200" => (~ret'.servers /\ ~ret'.next_cursor)
       /\ \A w \in Workers, outcome \in Outcomes \ {"200"} :
             Responded(w, outcome) =>
                 ErrorsOf(static_status', residential_stats', page[w].lease) =
                     ErrorsOf(static_status, residential_stats, page[w].lease) + 1]_vars

\* C18 witness: a fetch_page call whose first request raised an exception
\* made a second request, which brought records and a cursor.
C18_Witness ==
    /\ ret.op = "fetch_return"
    /\ ret.log = <<"exception", "200">>
    /\ ret.leases = 2
    /\ ret.servers
    /\ ret.next_cursor

\* The static endpoints get_proxy passes over at this instant.
Cooling(i) == static_status[i].cooldown_until > clock

\* C19: get_proxy never hands out a static endpoint whose cooldown_until is
\* later than the present time; it hands out the residential proxy exactly
\* when every static endpoint is in cooldown; the static endpoint it hands
\* out is the first one not in cooldown in cyclic order from static_index,
\* which then points behind it; static_index stays within
\* 0..len(static_ips)-1.
C19_GetProxy ==
    [][/\ static_index' \in StaticIdx
       /\ Leased =>
             /\ ret'.lease.proxy_type = "static" =>
                   /\ ret'.lease.ip_idx \in StaticIdx
                   /\ ~Cooling(ret'.lease.ip_idx)
                   /\ \E j \in 0..(NumStatic - 1) :
                         /\ ret'.lease.ip_idx = (static_index + j) % NumStatic
                         /\ \A k \in 0..(j - 1) : Cooling((static_index + k) % NumStatic)
                   /\ static_index' = (ret'.lease.ip_idx + 1) % NumStatic
             /\ ret'.lease.proxy_type = "residential" <=> \A i \in StaticIdx : Cooling(i)]_vars

\* C19 witness: get_proxy handed out a static endpoint while another one
\* was in cooldown, and has handed it out two times more than that one: it
\* passed over the endpoint in cooldown.
C19_Witness ==
    /\ ret.op \in {"fetch_start", "fetch_retry"}
    /\ ret.lease.proxy_type = "static"
    /\ \E i \in StaticIdx :
          /\ i # ret.lease.ip_idx
          /\ Cooling(i)
          /\ static_status[ret.lease.ip_idx].usage >= static_status[i].usage + 2

\* C17: whatever the two frontiers hold and in both modes, the plan
\* fetch_cycle dispatches holds the page-1 fetch of Asc and the page-1
\* fetch of Desc, and no more fetches than the per-cycle maximum.
C17_PageOneBothWays ==
    [][ret'.op = "fetch_cycle" =>
          /\ \E i \in DOMAIN fetches' :
                fetches'[i] = [cursor |-> NoCursor, sort_order |-> "Asc"]
          /\ \E i \in DOMAIN fetches' :
                fetches'[i] = [cursor |-> NoCursor, sort_order |-> "Desc"]
          /\ Len(fetches') <= CursorsPerCycle(ret'.mode)]_vars

\* C17 witness: a cycle in peak hours with both frontiers full dispatched a
\* plan cut down to the per-cycle maximum.
C17_Witness ==
    /\ ret.op = "fetch_cycle"
    /\ ret.mode = "PEAK"
    /\ Len(cursors_asc) = CURSOR_MAXLEN
    /\ Len(cursors_desc) = CURSOR_MAXLEN
    /\ Len(fetches) = CURSORS_PER_CYCLE_PEAK
    /\ fetches[Len(fetches)].sort_order = "Desc"

\* A thread that is about to acquire lock l.
Wants(t, l) == todo[t] # <<>> /\ Head(todo[t]) = Acq(l)

\* A thread waiting for a lock that another thread (or itself) holds.
Blocked(t) == \E l \in Locks : Wants(t, l) /\ owner[l] # NoThread

\* C20: no thread that holds the pool lock acquires the rotator lock; a
\* thread acquires a lock while it holds another only when the one it holds
\* is minute_lock, so the locks are taken in an order without cycle; and a
\* thread that waits for a lock waits for a thread that is not waiting
\* itself, so no interleaving ends in a deadlock.
C20_NoLockCycle ==
    /\ \A t \in LockThreads : owner["pool"] = t => ~Wants(t, "rotator")
    /\ \A t \in LockThreads, held \in Locks, l \in Locks :
          (owner[held] = t /\ Wants(t, l)) => (held = "minute" /\ l # "minute")
    /\ \A t \in LockThreads, l \in Locks :
          (Wants(t, l) /\ owner[l] # NoThread) => ~Blocked(owner[l])

\* C20 witness: the fetcher thread holds minute_lock and waits for the pool
\* lock, which a request handler holds, while a worker holds the rotator
\* lock.
C20_Witness ==
    /\ owner["minute"] = FetcherThread
    /\ Wants(FetcherThread, "pool")
    /\ owner["pool"] \in HandlerThreads
    /\ owner["rotator"] \in WorkerThreads

\* C25: in every reachable state the key sets of _available, _assigned and
\* _dead are pairwise disjoint (and _available, a dict, holds no id twice),
\* so the records get_server and get_batch select from never have a dead id.
C25_Disjoint ==
    /\ Keys(available) \cap DOMAIN assigned = {}
    /\ Keys(available) \cap DOMAIN dead = {}
    /\ DOMAIN assigned \cap DOMAIN dead = {}
    /\ Cardinality(Keys(available)) = Len(available)

\* C25 witness: report_dead has marked an id, an add_servers call has met
\* it again and skipped it, and another id is out on lease.
C25_Witness ==
    /\ DOMAIN dead # {}
    /\ DOMAIN assigned # {}
    /\ stats.dead_skipped > 0

\* C26: on well-formed items every completed pool operation conserves the
\* counters: total_given grows by the number of records a get_server or
\* get_batch call returned and by nothing else, total_received grows by the
\* added count an add_servers call returned and by nothing else, and after
\* the call len(_available) + total_given <= total_received and
\* len(_assigned) <= total_given.
C26_CountersConserved ==
    [][/\ stats'.total_given = stats.total_given +
              (IF ret'.op \in GetOps THEN Len(ret'.results) ELSE 0)
       /\ stats'.total_received = stats.total_received +
              (IF ret'.op = "add_servers" THEN ret'.added ELSE 0)
       /\ Len(available') + stats'.total_given <= stats'.total_received
       /\ Cardinality(DOMAIN assigned') <= stats'.total_given]_vars

\* C26 witness: two records were received and one handed out, and neither
\* is Available or Leased any more, so both inequalities are strict.
C26_Witness ==
    /\ stats.total_received = 2
    /\ stats.total_given = 1
    /\ available = <<>>
    /\ assigned = EmptyMap
    /\ ret.op \in GetOps \cup {"add_servers"}

\* C23: a report_error for a static endpoint that brings its consecutive
\* errors to c sets cooldown_until to now + min(30 + 15*c, 120) when the
\* error is a rate limit or c >= 2, which is no shorter than the cooldown
\* for c - 1 errors and at most 120 s ahead; a first error that is no rate
\* limit (c = 1) leaves cooldown_until as it was.
C23_CooldownEscalates ==
    [][(ret'.op = "report_error" /\ ret'.proxy_type = "static") =>
          LET was == static_status[ret'.idx]
              now == static_status'[ret'.idx]
              c   == now.consecutive_errors
          IN  /\ c = was.consecutive_errors + 1
              /\ IF ret'.is_rate_limit \/ c >= 2
                 THEN /\ now.cooldown_until =
                            clock + (IF 30 + 15 * c < 120 THEN 30 + 15 * c ELSE 120)
                      /\ now.cooldown_until - clock <= 120
                      /\ now.cooldown_until - clock >= Cooldown(c - 1)
                 ELSE /\ c = 1
                      /\ now.cooldown_until = was.cooldown_until]_vars

\* C23 witness: the seventh error in a row of a static endpoint, whose
\* cooldown is at the cap of 120 s.
C23_Witness ==
    /\ ret.op = "report_error"
    /\ ret.proxy_type = "static"
    /\ static_status[ret.idx].consecutive_errors = 7
    /\ static_status[ret.idx].cooldown_until = clock + 120

\* C24: the report_success that follows a 200 response on a static
\* endpoint lowers a cooldown_until above 0 by 10 s, not below 0, and does
\* not clear it: when the cooldown had more than 10 s left, the endpoint is
\* still in cooldown after the success and a get_proxy at that instant does
\* not hand it out.
C24_SuccessRelievesPartly ==
    [][\A w \in Workers :
          (Responded(w, "200") /\ page[w].lease.proxy_type = "static") =>
              LET idx == page[w].lease.ip_idx
                  was == static_status[idx].cooldown_until
                  now == static_status'[idx].cooldown_until
              IN  /\ now >= 0
                  /\ now = (IF was > 10 THEN was - 10 ELSE 0)
                  /\ was - clock > 10 =>
                        /\ now > clock'
                        /\ get_proxy([static_index |-> static_index',
                                      static_status |-> static_status',
                                      residential_stats |-> residential_stats'],
                                     clock').ip_idx # idx]_vars

\* C24 witness: a request in flight on a static endpoint ended in 200 after
\* another request had put the endpoint into cooldown; the endpoint has its
\* error streak cleared and is passed over by get_proxy all the same.
C24_Witness ==
    /\ ret.op = "fetch_return"
    /\ Last(ret.log) = "200"
    /\ \E i \in StaticIdx :
          /\ static_status[i].success = 1
          /\ static_status[i].errors >= 1
          /\ static_status[i].consecutive_errors = 0
          /\ static_status[i].cooldown_until > clock
          /\ get_proxy(Rotator, clock).ip_idx # i

\* C27: a fetch_page call that returns has taken as many leases as it made
\* reports to the rotator (one report_success or report_error per request,
\* for the endpoint of the request), and when no fetch_page call is in
\* flight every static endpoint has usage = success + errors.
C27_LeasesReported ==
    [][/\ ret'.op = "fetch_return" => ret'.leases = Len(ret'.log)
       /\ (\A w \in Workers : page'[w].pc = "idle") =>
             \A i \in StaticIdx :
                 static_status'[i].usage =
                     static_status'[i].success + static_status'[i].errors]_vars

\* The tokens of the results of one direction that fetch_cycle got to see,
\* in the order of completion.
RECURSIVE Seen(_, _, _, _)
Seen(results, raised, sort_order, k) ==
    IF k > Len(results) THEN <<>>
    ELSE (IF /\ results[k].sort_order = sort_order
             /\ results[k].next_cursor # NoCursor
             /\ ~raised[k]
          THEN <<results[k].next_cursor>> ELSE <<>>)
         \o Seen(results, raised, sort_order, k + 1)

\* The newest 3000 elements of q.
Newest(q) == SubSeq(q, Len(q) - Min(Len(q), 3000) + 1, Len(q))

\* C21: neither frontier ever holds more than 3000 tokens; a cycle leaves
\* in the Asc frontier the newest 3000 of its old tokens followed by the
\* tokens its Asc fetches returned (the oldest are evicted first), likewise
\* for Desc, so a token goes only to the frontier of its direction and a
\* result without next cursor adds nothing.
C21_FrontierBounded ==
    [][/\ Len(cursors_asc') <= 3000
       /\ Len(cursors_desc') <= 3000
       /\ ret'.op = "fetch_cycle_end" =>
             /\ cursors_asc' =
                   Newest(cursors_asc \o Seen(ret'.results, ret'.raised, "Asc", 1))
             /\ cursors_desc' =
                   Newest(cursors_desc \o Seen(ret'.results, ret'.raised, "Desc", 1))
             /\ (\A k \in DOMAIN ret'.results :
                    ret'.results[k].next_cursor = NoCursor)
                => (cursors_asc' = cursors_asc /\ cursors_desc' = cursors_desc)]_vars

\* C21 witness: a cycle stored two tokens in the full Asc frontier, which
\* lost its two oldest tokens, and none in the Desc frontier.
C21_Witness ==
    /\ ret.op = "fetch_cycle_end"
    /\ Len(cursors_asc) = 3000
    /\ cursors_asc[1] = 3
    /\ cursors_asc[2999] > 3000
    /\ cursors_asc[3000] > 3000
    /\ cursors_desc = Frontier(1)

\* C22: in part_000 /get-server never returns a job id that it returned
\* less than BLACKLIST_DURATION (300 s) before; and server_cache never
\* holds an id twice nor an id whose blacklisting has not ended.
C22_NoRepeatInBlacklistTime ==
    [][/\ (ret'.op = "get_server_000" /\ ret'.job_id # NoId) =>
             \/ handed[ret'.job_id] = Never
             \/ clock' - handed[ret'.job_id] >= 300
       /\ \A i, j \in DOMAIN server_cache' :
             i # j => server_cache'[i] # server_cache'[j]
       /\ \A i \in DOMAIN server_cache' :
             ~(/\ server_cache'[i] \in DOMAIN blacklist'
               /\ blacklist'[server_cache'[i]] > clock')]_vars

====
